---- MODULE Spec2Model ----
(***************************************************************************)
(* A model of scripts/export-conversation.py: the transcript reader, the   *)
(* content extractor, title and tag inference, the Markdown renderer, the  *)
(* index updater and the two invocation modes of main().                   *)
(*                                                                         *)
(* Text is modelled as TLA+ strings, character by character: strip, split, *)
(* startswith, lower and the substring test are computed on them as Python *)
(* computes them.  A dict is a record whose absent keys hold Absent.       *)
(***************************************************************************)
EXTENDS Naturals, Sequences, FiniteSets, TLC

\* ------------------------------------------------------------ bounds
\* Longest transcript (in lines) drawn as an input.
MaxLines == 3
\* Number of calls of update_index on one index file.
MaxUpdates == 3
\* Number of invocations of main() in one run of the program.
MaxInvocations == 3

\* ------------------------------------------------------------ text
Absent == "<absent>"

\* The characters str.strip() removes.
Whitespace == {" ", "\n", "\t", "\r"}

\* The grave accent: a TLA+ string cannot hold it, an apostrophe stands for it.
BQ == "'"

Char(s, i) == SubSeq(s, i, i)

\* F(val), with val evaluated once, before F is: TLC hands an operator its
\* arguments unevaluated and may evaluate them again at each use.
With(val, F(_)) == CHOOSE r \in {F(v) : v \in {val}} : TRUE

RECURSIVE Rep(_, _)
Rep(c, n) == IF n = 0 THEN "" ELSE c \o Rep(c, n - 1)

\* s[:n]
Prefix(s, n) == IF Len(s) <= n THEN s ELSE SubSeq(s, 1, n)

\* s.startswith(p)
StartsWith(s, p) == Len(p) <= Len(s) /\ SubSeq(s, 1, Len(p)) = p

\* k in s
Contains(s, k) ==
    \E i \in 1..(Len(s) + 1) :
        i + Len(k) - 1 <= Len(s) /\ SubSeq(s, i, i + Len(k) - 1) = k

\* The places of the line breaks of s.
Breaks(s) == {i \in 1..Len(s) : Char(s, i) = "\n"}

\* The least and the greatest element of a non-empty set of numbers.
Least(S) == CHOOSE i \in S : \A j \in S : i <= j
Greatest(S) == CHOOSE i \in S : \A j \in S : i >= j

\* s.strip()
Strip(s) ==
    With(s, LAMBDA v :
    With({i \in 1..Len(v) : Char(v, i) \notin Whitespace}, LAMBDA keep :
        IF keep = {} THEN "" ELSE SubSeq(v, Least(keep), Greatest(keep))))

\* s.split('\n')[0]
FirstLine(s) ==
    With(s, LAMBDA v :
        IF Breaks(v) = {} THEN v ELSE SubSeq(v, 1, Least(Breaks(v)) - 1))

UpperCase == "ABCDEFGHIJKLMNOPQRSTUVWXYZ"
LowerCase == "abcdefghijklmnopqrstuvwxyz"

\* chr -> chr.lower() for the upper-case letters.
LowerOf ==
    [c \in {Char(UpperCase, i) : i \in 1..Len(UpperCase)} |->
        Char(LowerCase, CHOOSE i \in 1..Len(UpperCase) : Char(UpperCase, i) = c)]

LowerChar(c) == IF c \in DOMAIN LowerOf THEN LowerOf[c] ELSE c

\* sep.join(texts)
RECURSIVE Join(_, _)
Join(sep, texts) ==
    IF texts = <<>> THEN ""
    ELSE IF Len(texts) = 1 THEN texts[1]
    ELSE With(Len(texts) \div 2, LAMBDA h :
            With(SubSeq(texts, 1, h), LAMBDA front : Join(sep, front))
            \o sep
            \o With(SubSeq(texts, h + 1, Len(texts)), LAMBDA rest : Join(sep, rest)))

\* s.lower()
Lower(s) == With(s, LAMBDA v : Join("", [i \in 1..Len(v) |-> LowerChar(Char(v, i))]))

\* The concatenation of a sequence of sequences.
RECURSIVE Flatten(_)
Flatten(ss) == IF ss = <<>> THEN <<>> ELSE Head(ss) \o Flatten(Tail(ss))

\* ------------------------------------------------------------ values
\* A JSON value under a 'content' key: absent, a string, a list of blocks, or
\* anything else (a number, null, a mapping), which str() renders as repr.
NoContent == [k |-> "absent", s |-> "", blocks |-> <<>>]
StrContent(s) == [k |-> "str", s |-> s, blocks |-> <<>>]
ListContent(blocks) == [k |-> "list", s |-> "", blocks |-> blocks]
OtherContent(repr) == [k |-> "other", s |-> repr, blocks |-> <<>>]

\* A JSON value under an 'input' key; dump is json.dumps(input, indent=2).
NoInput == [present |-> FALSE, isdict |-> FALSE, empty |-> TRUE, dump |-> ""]
EmptyInput == [present |-> TRUE, isdict |-> TRUE, empty |-> TRUE, dump |-> "{}"]
DictInput(dump) == [present |-> TRUE, isdict |-> TRUE, empty |-> FALSE, dump |-> dump]

\* One element of a content list: a mapping (py = "dict"), a plain string
\* (py = "str", held in text) or any other value.
BlankBlock ==
    [py |-> "dict", type |-> Absent, text |-> Absent, media_type |-> Absent,
     tool_use_id |-> Absent, content |-> NoContent, name |-> Absent,
     input |-> NoInput]
TextBlock(t) == [BlankBlock EXCEPT !.type = "text", !.text = t]
ImageBlock(mt) == [BlankBlock EXCEPT !.type = "image", !.media_type = mt]
ToolResultBlock(id, c) ==
    [BlankBlock EXCEPT !.type = "tool_result", !.tool_use_id = id, !.content = c]
ToolUseBlock(n, inp) ==
    [BlankBlock EXCEPT !.type = "tool_use", !.name = n, !.input = inp]
StrBlock(t) == [BlankBlock EXCEPT !.py = "str", !.text = t]

\* A message mapping: the keys the program reads, Absent when the key is missing.
BlankMessage ==
    [_msg_type |-> Absent, role |-> Absent, type |-> Absent, content |-> NoContent,
     name |-> Absent, input |-> NoInput, tool_use_id |-> Absent]

\* dict.get(key, default)
Get(v, default) == IF v = Absent THEN default ELSE v

\* The value under a decoded line's 'message' key.
NoMessage == [m |-> "absent", v |-> BlankMessage]
NonMapMessage == [m |-> "nonmap", v |-> BlankMessage]
MapMessage(v) == [m |-> "map", v |-> v]

\* One line of a transcript: blank after strip(), not decodable as JSON,
\* decodable to a value that is no mapping, or a mapping (data).
BlankData ==
    [type |-> Absent, message |-> NoMessage, role |-> Absent, content |-> NoContent,
     name |-> Absent, input |-> NoInput, tool_use_id |-> Absent]
BlankLine == [shape |-> "blank", data |-> BlankData]
UndecodableLine == [shape |-> "undecodable", data |-> BlankData]
NonMapLine == [shape |-> "nonmap", data |-> BlankData]
MapLine(data) == [shape |-> "map", data |-> data]

\* The keys of a top-level record that the rest of the program reads.
RawRecord(data) ==
    [_msg_type |-> Absent, role |-> data.role, type |-> data.type,
     content |-> data.content, name |-> data.name, input |-> data.input,
     tool_use_id |-> data.tool_use_id]

\* ------------------------------------------------------------ parse_transcript
\* The loop over the lines of the open file.  raised: an exception other than
\* JSONDecodeError left the loop (data.get on a value that is no mapping, item
\* assignment on a message that is no mapping).
RECURSIVE parse_lines(_, _)
parse_lines(lines, messages) ==
    IF lines = <<>> THEN [raised |-> FALSE, messages |-> messages]
    ELSE
        LET line == Head(lines)
            data == line.data
        IN  CASE line.shape = "blank" -> With(Tail(lines), LAMBDA rest : parse_lines(rest, messages))
              [] line.shape = "undecodable" -> With(Tail(lines), LAMBDA rest : parse_lines(rest, messages))
              [] line.shape = "nonmap" -> [raised |-> TRUE, messages |-> messages]
              [] OTHER ->
                    IF data.type \in {"user", "assistant"}
                    THEN IF data.message.m = "absent"
                         THEN With(Tail(lines), LAMBDA rest : parse_lines(rest, messages))
                         ELSE IF data.message.m = "nonmap"
                         THEN [raised |-> TRUE, messages |-> messages]
                         ELSE With(Tail(lines), LAMBDA rest :
                              With(Append(messages,
                                     [data.message.v EXCEPT !._msg_type = data.type]),
                                   LAMBDA more : parse_lines(rest, more)))
                    ELSE IF data.type \in {"tool_use", "tool_result"}
                    THEN With(Tail(lines), LAMBDA rest :
                         With(Append(messages, RawRecord(data)),
                              LAMBDA more : parse_lines(rest, more)))
                    ELSE With(Tail(lines), LAMBDA rest : parse_lines(rest, messages))

\* A transcript path: status is "missing" (FileNotFoundError), "unreadable"
\* (any other failure of open or read) or "ok".
parse_transcript(file) ==
    IF file.status # "ok" THEN <<>>
    ELSE LET r == parse_lines(file.lines, <<>>)
         IN  IF r.raised THEN <<>> ELSE r.messages

\* ------------------------------------------------------------ extract_content
\* A return value: None, or a string.
RetNone == [none |-> TRUE, s |-> ""]
Ret(s) == [none |-> FALSE, s |-> s]
\* Python's truth value of a return value.
Truthy(r) == ~r.none /\ r.s # ""

\* The text sub-blocks of a list under a tool result's 'content'.
RECURSIVE ItemTexts(_)
ItemTexts(items) ==
    IF items = <<>> THEN <<>>
    ELSE LET item == Head(items)
         IN  (IF item.py = "dict" /\ item.type = "text"
              THEN <<Get(item.text, "")>> ELSE <<>>) \o ItemTexts(Tail(items))

\* What one block of a user message appends to texts.
UserBlockTexts(block) ==
    IF block.py = "dict"
    THEN CASE block.type = "text" -> <<Get(block.text, "")>>
           [] block.type = "image" ->
                <<"[Image: " \o Get(block.media_type, "unknown") \o "]">>
           [] block.type = "tool_result" ->
                <<"[Tool Result: " \o Get(block.tool_use_id, "unknown") \o "]">>
                \o (CASE block.content.k = "str" -> <<block.content.s>>
                      [] block.content.k = "list" -> ItemTexts(block.content.blocks)
                      [] OTHER -> <<>>)
           [] OTHER -> <<>>
    ELSE IF block.py = "str" THEN <<block.text>>
    ELSE <<>>

\* What one block of an assistant message appends to texts.
AssistantBlockTexts(block) ==
    IF block.py = "dict"
    THEN CASE block.type = "text" -> <<Get(block.text, "")>>
           [] block.type = "tool_use" ->
                <<"\n**Tool Use**: " \o BQ \o Get(block.name, "unknown") \o BQ \o "\n">>
                \o (IF block.input.present /\ block.input.isdict /\ ~block.input.empty
                    THEN <<BQ \o BQ \o BQ \o "json\n" \o block.input.dump
                           \o "\n" \o BQ \o BQ \o BQ \o "\n">>
                    ELSE <<>>)
           [] OTHER -> <<>>
    ELSE IF block.py = "str" THEN <<block.text>>
    ELSE <<>>

UserTexts(blocks) == Flatten([i \in 1..Len(blocks) |-> UserBlockTexts(blocks[i])])
AssistantTexts(blocks) ==
    Flatten([i \in 1..Len(blocks) |-> AssistantBlockTexts(blocks[i])])

\* message.pop('_msg_type', message.get('role', '')): the value popped ...
PoppedType(message) ==
    IF message._msg_type # Absent THEN message._msg_type ELSE Get(message.role, "")
\* ... and the message the caller's list holds afterwards.
Popped(message) == [message EXCEPT !._msg_type = Absent]

\* The rendered 'content' of a standalone tool result.
RECURSIVE ToolResultItems(_)
ToolResultItems(items) ==
    IF items = <<>> THEN ""
    ELSE LET item == Head(items)
         IN  (IF item.py = "dict" /\ item.type = "text"
              THEN BQ \o BQ \o BQ \o "\n" \o Get(item.text, "") \o "\n"
                   \o BQ \o BQ \o BQ \o "\n"
              ELSE "") \o ToolResultItems(Tail(items))

\* The value extract_content returns.
extract_content_value(message) ==
    LET msg_type == PoppedType(message)
        content == message.content
    IN  IF msg_type = "user" \/ message.role = "user"
        THEN IF content.k = "list"
             THEN Ret(Strip(Join("\n", UserTexts(content.blocks))))
             ELSE Ret(content.s)
        ELSE IF msg_type = "assistant" \/ message.role = "assistant"
        THEN IF content.k \in {"list", "absent"}
             THEN Ret(Strip(Join("\n", AssistantTexts(content.blocks))))
             ELSE Ret(content.s)
        ELSE IF message.type = "tool_use"
        THEN Ret("**Tool Use**: " \o BQ \o Get(message.name, "unknown") \o BQ \o "\n"
                 \o (IF message.input.present /\ message.input.isdict
                        /\ ~message.input.empty
                     THEN BQ \o BQ \o BQ \o "json\n" \o message.input.dump \o "\n"
                          \o BQ \o BQ \o BQ \o "\n"
                     ELSE ""))
        ELSE IF message.type = "tool_result"
        THEN Ret("**Tool Result**: " \o BQ \o Get(message.tool_use_id, "unknown")
                 \o BQ \o "\n"
                 \o (CASE content.k = "str" ->
                            BQ \o BQ \o BQ \o "\n" \o content.s \o "\n"
                            \o BQ \o BQ \o BQ \o "\n"
                       [] content.k = "list" -> ToolResultItems(content.blocks)
                       [] OTHER -> ""))
        ELSE RetNone

\* extract_content: the value returned and the message as the call leaves it.
extract_content(message) ==
    [content |-> extract_content_value(message), message |-> Popped(message)]

\* ------------------------------------------------------------ generate_title
\* Shortest trimmed content that can give a title.
MinTitleContent == 20
\* Longest first line used as it is.
MaxTitleLine == 50
\* Characters kept of a longer first line, before the ellipsis.
TitleCut == 47
\* Characters of the session identifier in the default title.
SessionIdCut == 8

skip_prefixes == {"[Tool Result:", "[Tool Use:", "[Request interrupted", "[Image:"}

\* A first line with its fiftieth character cut as well.
shorten_from_fifty(first_line) ==
    IF Len(first_line) >= MaxTitleLine
    THEN Prefix(first_line, TitleCut) \o "..."
    ELSE first_line

\* A first line of more than fifty characters is cut to 47 and an ellipsis.
shorten(first_line) ==
    IF Len(first_line) > MaxTitleLine
    THEN Prefix(first_line, TitleCut) \o "..."
    ELSE first_line

\* The loop of generate_title from message i on: the title returned and the
\* list as the calls of extract_content leave it.
RECURSIVE title_loop(_, _, _)
title_loop(messages, i, session_id) ==
    IF i > Len(messages)
    THEN [title |-> "Conversation " \o Prefix(session_id, SessionIdCut),
          messages |-> messages]
    ELSE IF messages[i].role # "user"
    THEN title_loop(messages, i + 1, session_id)
    ELSE
        With(extract_content(messages[i]), LAMBDA r :
        With([messages EXCEPT ![i] = r.message], LAMBDA after :
        With(Strip(r.content.s), LAMBDA content :
        With(shorten(Strip(FirstLine(content))), LAMBDA first_line :
            IF ~Truthy(r.content) THEN title_loop(after, i + 1, session_id)
            ELSE IF \E p \in skip_prefixes : StartsWith(content, p)
            THEN title_loop(after, i + 1, session_id)
            ELSE IF Len(content) < MinTitleContent
            THEN title_loop(after, i + 1, session_id)
            ELSE IF first_line # ""
            THEN [title |-> first_line, messages |-> after]
            ELSE title_loop(after, i + 1, session_id)))))

generate_title(messages, session_id) == title_loop(messages, 1, session_id)

\* ------------------------------------------------------------ extract_tags
\* Most tags returned.
MaxTags == 5

\* The keyword table, in the order the dict literal gives it.
keywords ==
    << <<"bug", "bug-fix">>, <<"fix", "bug-fix">>,
       <<"feature", "feature-development">>, <<"implement", "feature-development">>,
       <<"refactor", "refactoring">>, <<"test", "testing">>,
       <<"review", "code-review">>, <<"deploy", "deployment">>,
       <<"debug", "debugging">>, <<"api", "api">>,
       <<"documentation", "documentation">>, <<"help", "help">>,
       <<"explain", "explanation">> >>

\* The first loop of extract_tags: all_text, and the list as it is left.
RECURSIVE all_text_loop(_, _, _)
all_text_loop(messages, i, all_text) ==
    IF i > Len(messages) THEN [all_text |-> all_text, messages |-> messages]
    ELSE With(extract_content(messages[i]), LAMBDA r :
         With([messages EXCEPT ![i] = r.message], LAMBDA after :
         With(IF Truthy(r.content) THEN all_text \o Lower(r.content.s) \o " "
              ELSE all_text, LAMBDA text :
            all_text_loop(after, i + 1, text))))

\* The second loop of extract_tags, over the keyword table from entry k on.
RECURSIVE keyword_loop(_, _, _)
keyword_loop(all_text, k, tags) ==
    IF k > Len(keywords) THEN tags
    ELSE With(IF Contains(all_text, keywords[k][1])
                 /\ ~\E j \in 1..Len(tags) : tags[j] = keywords[k][2]
              THEN Append(tags, keywords[k][2])
              ELSE tags, LAMBDA next : keyword_loop(all_text, k + 1, next))

\* tags[:n]
Take(seq, n) == IF Len(seq) <= n THEN seq ELSE SubSeq(seq, 1, n)

extract_tags(messages) ==
    With(all_text_loop(messages, 1, ""), LAMBDA a :
        [tags |-> Take(keyword_loop(a.all_text, 1, <<>>), MaxTags),
         messages |-> a.messages])

\* ------------------------------------------------------------ to_markdown
Digits == "0123456789"

\* str(n) of a natural number.
RECURSIVE IntStr(_)
IntStr(n) ==
    IF n < 10 THEN Char(Digits, n + 1)
    ELSE IntStr(n \div 10) \o Char(Digits, (n % 10) + 1)

\* json.dumps(tags) of a list of strings without quotes or backslashes.
JsonList(tags) ==
    "[" \o Join(", ", [i \in 1..Len(tags) |-> "\"" \o tags[i] \o "\""]) \o "]"

\* The heading of a role, Absent when the record is skipped.
Heading(role_value) ==
    CASE role_value = "user" -> "## User"
      [] role_value = "assistant" -> "## Claude"
      [] role_value = "tool_use" -> "## Tool Use"
      [] role_value = "tool_result" -> "## Tool Result"
      [] OTHER -> Absent

\* msg.get('role') or msg.get('type')
RoleValue(msg) == IF msg.role \notin {Absent, ""} THEN msg.role ELSE msg.type

\* The lines output holds before the loop over the messages.
markdown_head(messages, metadata) ==
    << Join("\n",
            << "---",
               "title: \"" \o metadata.title \o "\"",
               "date: " \o metadata.date,
               "tags: " \o JsonList(metadata.tags),
               "session_id: " \o metadata.session_id >>
            \o (IF metadata.cwd \notin {Absent, ""}
                THEN << "project: " \o metadata.cwd >> ELSE <<>>)
            \o << "---" >>),
       "",
       "# " \o metadata.title,
       "",
       "**Session ID**: " \o BQ \o metadata.session_id \o BQ,
       "**Date**: " \o metadata.date,
       "**Messages**: " \o IntStr(metadata.message_count) >>
    \o (IF metadata.tags # <<>>
        THEN << "**Tags**: " \o Join(", ", metadata.tags) >> ELSE <<>>)
    \o << "", "---", "" >>

\* A role change that sends the open section to output and keeps it open.
flush_keeping_content(st, role) ==
    IF st.current_role # Absent /\ st.current_role # role
    THEN [st EXCEPT
            !.output = IF st.current_content # <<>>
                       THEN st.output
                            \o << Join("\n", st.current_content), "", "---", "" >>
                       ELSE st.output]
    ELSE st

\* The step of the loop taken before a fragment of the given role is added:
\* when the role has changed, the open section goes to output, followed by a
\* rule, and current_content is emptied.  st holds the loop's variables:
\* messages, current_role (Absent for None), current_content and output.
flush(st, role) ==
    IF st.current_role # Absent /\ st.current_role # role
    THEN [st EXCEPT
            !.output = IF st.current_content # <<>>
                       THEN st.output
                            \o << Join("\n", st.current_content), "", "---", "" >>
                       ELSE st.output,
            !.current_content = <<>>]
    ELSE st

\* The loop of to_markdown from message i on.
RECURSIVE markdown_loop(_, _)
markdown_loop(st, i) ==
    IF i > Len(st.messages)
    THEN [st EXCEPT !.output =
            IF st.current_content # <<>>
            THEN Append(st.output, Join("\n", st.current_content))
            ELSE st.output]
    ELSE
        LET msg == st.messages[i]
            role == Heading(RoleValue(msg))
        IN  IF role = Absent THEN markdown_loop(st, i + 1)
            ELSE With(extract_content(msg), LAMBDA r :
                IF ~Truthy(r.content)
                THEN With([st EXCEPT !.messages[i] = r.message],
                          LAMBDA next : markdown_loop(next, i + 1))
                ELSE With(flush(st, role), LAMBDA flushed :
                     With([flushed EXCEPT
                            !.messages[i] = r.message,
                            !.current_role = role,
                            !.current_content =
                                (IF flushed.current_content = <<>>
                                 THEN << role, "" >> ELSE flushed.current_content)
                                \o << r.content.s >>],
                          LAMBDA next : markdown_loop(next, i + 1))))

\* to_markdown: the list output after the loop, the text returned, and the
\* messages as the calls of extract_content leave them.  body is the part of
\* output that follows the head.
to_markdown(messages, metadata) ==
    With(markdown_head(messages, metadata), LAMBDA head :
    With(markdown_loop([messages |-> messages, current_role |-> Absent,
                        current_content |-> <<>>, output |-> head], 1), LAMBDA st :
        [markdown |-> Join("\n", st.output),
         body |-> SubSeq(st.output, Len(head) + 1, Len(st.output)),
         messages |-> st.messages]))

\* ------------------------------------------------------------ files
\* The file system is a function from the paths of the files that exist to
\* their text.  Directories hold no data and are not modelled.
Exists(fs, path) == path \in DOMAIN fs

\* open(path, 'w') ... write(text)
WriteFile(fs, path, text) ==
    [p \in DOMAIN fs \cup {path} |-> IF p = path THEN text ELSE fs[p]]

\* open(path, 'a') ... write(text)
AppendFile(fs, path, text) ==
    WriteFile(fs, path, (IF Exists(fs, path) THEN fs[path] ELSE "") \o text)

\* f.readlines(): the lines of a text, each with its line break.
RECURSIVE ReadLines(_)
ReadLines(text) ==
    IF text = "" THEN <<>>
    ELSE IF Breaks(text) = {} THEN <<text>>
    ELSE With(Least(Breaks(text)), LAMBDA k :
            <<SubSeq(text, 1, k)>>
            \o With(SubSeq(text, k + 1, Len(text)), ReadLines))

\* f.writelines(lines)
WriteLines(lines) == Join("", lines)

\* ------------------------------------------------------------ update_index
index_header ==
    << "# Conversation Index\n",
       "\n",
       "This index contains all exported Claude Code conversations.\n",
       "\n",
       "## Conversations\n",
       "\n" >>

\* YYYY/MM-DD/session-id.md
rel_path(date, session_id) ==
    SubSeq(date, 1, 4) \o "/" \o SubSeq(date, 6, 7) \o "-" \o SubSeq(date, 9, 10)
    \o "/" \o session_id \o ".md"

index_entry(session_id, metadata) ==
    "- [" \o metadata.date \o "] [" \o metadata.title \o "]("
    \o rel_path(metadata.date, session_id) \o ")"
    \o (IF metadata.tags # <<>> THEN " - " \o Join(", ", metadata.tags) ELSE "")
    \o "\n"

\* The entry put after the last line.
insert_pos_at_end(index_content) == Len(index_content)

\* The number of lines the entry is inserted after: two past the first line
\* that holds the section header, or all of them when no line does.
insert_pos(index_content) ==
    LET hits == {i \in 1..Len(index_content) :
                    Contains(index_content[i], "## Conversations")}
    IN  IF hits = {} THEN Len(index_content)
        ELSE Least(hits) + 1

\* list.insert(pos, entry)
Insert(seq, pos, entry) ==
    IF pos >= Len(seq) THEN Append(seq, entry)
    ELSE SubSeq(seq, 1, pos) \o <<entry>> \o SubSeq(seq, pos + 1, Len(seq))

update_index(fs, output_dir, session_id, metadata) ==
    LET index_path == output_dir \o "/index.md"
        entry == index_entry(session_id, metadata)
    IN  With(IF ~Exists(fs, index_path) THEN index_header
             ELSE ReadLines(fs[index_path]), LAMBDA index_content :
            WriteFile(fs, index_path,
                WriteLines(Insert(index_content, insert_pos(index_content), entry))))

\* ------------------------------------------------------------ save_conversation
\* The document written and the index left alone.
save_conversation_without_index(fs, markdown, output_dir, session_id, metadata) ==
    WriteFile(fs, output_dir \o "/" \o rel_path(metadata.date, session_id), markdown)

save_conversation(fs, markdown, output_dir, session_id, metadata) ==
    LET filepath == output_dir \o "/" \o rel_path(metadata.date, session_id)
    IN  With(WriteFile(fs, filepath, markdown), LAMBDA written :
            update_index(written, output_dir, session_id, metadata))

\* ------------------------------------------------------------ main
\* The part both modes share: metadata, title, tags, Markdown, save.
export(fs, messages, session_id, date, cwd, output_dir) ==
    With(generate_title(messages, session_id), LAMBDA t :
    With(extract_tags(t.messages), LAMBDA g :
    With([session_id |-> session_id, date |-> date,
          message_count |-> Len(messages), cwd |-> cwd,
          title |-> t.title, tags |-> g.tags], LAMBDA metadata :
    With(to_markdown(g.messages, metadata).markdown, LAMBDA markdown :
        save_conversation(fs, markdown, output_dir, session_id, metadata)))))

hook_output_dir(cwd) == cwd \o "/.claude/history"
hook_state_file(cwd) == hook_output_dir(cwd) \o "/.exported_state"

\* A guard that lets every invocation through.
already_exported_never(fs, state_file, session_id) == FALSE

\* The guard of hook mode: the marker file exists and session_id is in its text.
already_exported(fs, state_file, session_id) ==
    Exists(fs, state_file) /\ Contains(fs[state_file], session_id)

\* Hook mode: the JSON read from stdin cannot be decoded, or it is a mapping
\* whose session_id, transcript_path and cwd default to ''.  transcripts maps
\* a path to the file there; today is datetime.now().strftime('%Y-%m-%d').
\* The result: the return code, the file system, whether the already-exported
\* guard returned, whether the export ran, and the number of messages read
\* (0 when the transcript was not read).
main_hook(fs, hook_data, transcripts, today) ==
    LET session_id == hook_data.session_id
        cwd == hook_data.cwd
        output_dir == hook_output_dir(cwd)
        state_file == hook_state_file(cwd)
        quiet == [code |-> 1, fs |-> fs, guard |-> FALSE, exported |-> FALSE,
                  n_messages |-> 0]
        readable == hook_data.transcript_path # ""
                    /\ transcripts[hook_data.transcript_path].status # "missing"
    IN  IF ~hook_data.decodable THEN quiet
        ELSE IF session_id = "" \/ cwd = "" THEN quiet
        ELSE IF already_exported(fs, state_file, session_id)
        THEN [quiet EXCEPT !.code = 0, !.guard = TRUE]
        ELSE
            With(IF readable
                 THEN parse_transcript(transcripts[hook_data.transcript_path])
                 ELSE <<>>, LAMBDA messages :
            With(IF messages # <<>>
                 THEN export(fs, messages, session_id, today, cwd, output_dir)
                 ELSE fs, LAMBDA saved :
                [code |-> 0,
                 fs |-> AppendFile(saved, state_file, session_id \o "\n"),
                 guard |-> FALSE, exported |-> messages # <<>>,
                 n_messages |-> Len(messages)]))

\* CLI mode returning 0 when no message was read.
main_cli_zero_when_empty(fs, args, transcripts, today) ==
    With(parse_transcript(transcripts[args.transcript]), LAMBDA messages :
        IF messages = <<>>
        THEN [code |-> 0, fs |-> fs, guard |-> FALSE, exported |-> FALSE,
              n_messages |-> 0]
        ELSE [code |-> 0,
              fs |-> export(fs, messages, args.session_id, today, args.cwd,
                            args.output),
              guard |-> FALSE, exported |-> TRUE, n_messages |-> Len(messages)])

\* CLI mode, after argparse: args holds session_id, transcript, output, cwd
\* (Absent when --cwd is not given).
main_cli(fs, args, transcripts, today) ==
    With(parse_transcript(transcripts[args.transcript]), LAMBDA messages :
        IF messages = <<>>
        THEN [code |-> 1, fs |-> fs, guard |-> FALSE, exported |-> FALSE,
              n_messages |-> 0]
        ELSE [code |-> 0,
              fs |-> export(fs, messages, args.session_id, today, args.cwd,
                            args.output),
              guard |-> FALSE, exported |-> TRUE, n_messages |-> Len(messages)])

\* ------------------------------------------------------------ inputs
\* A line holding a user or assistant record whose message is a mapping.
MessageLine(type, role, content) ==
    MapLine([BlankData EXCEPT
        !.type = type,
        !.message = MapMessage([BlankMessage EXCEPT !.role = role,
                                                    !.content = content])])

\* A line holding a top-level record of the given type.
RawLine(type, tool_use_id, content) ==
    MapLine([BlankData EXCEPT !.type = type, !.tool_use_id = tool_use_id,
                              !.content = content])

\* Lines of every shape the reader tells apart.
ReaderLines ==
    { BlankLine, UndecodableLine, NonMapLine,
      MapLine([BlankData EXCEPT !.type = "system"]),
      MapLine([BlankData EXCEPT !.type = "user"]),
      MapLine([BlankData EXCEPT !.type = "assistant", !.message = NonMapMessage]),
      MessageLine("user", "user", StrContent("hi")),
      RawLine("tool_use", Absent, NoContent) }

\* User content around the limits of title inference: 19 and 20 characters
\* after trimming, a first line of 50 and of 51, a marker behind leading blanks.
TitleLines ==
    { MessageLine("user", "user", StrContent(" " \o Rep("s", 19) \o "\n")),
      MessageLine("user", "user", StrContent("\n Fix it " \o Rep("t", 11) \o "\t \nmore ")),
      MessageLine("user", "user",
          ListContent(<< TextBlock(Rep("f", 49) \o "! "), StrBlock("second line") >>)),
      MessageLine("user", "user", StrContent(Rep("g", 50) \o "?\nnext")),
      MessageLine("user", "user", StrContent("  [Request interrupted by user]")),
      MessageLine("user", Absent, StrContent(Rep("n", 30))) }

\* Content holding keywords of the tag table, in records of every kind.
TagLines ==
    { MessageLine("user", "user", StrContent("Fix the BUG")),
      MessageLine("user", Absent, StrContent("explain the api, help")),
      MessageLine("assistant", "assistant",
          ListContent(<< TextBlock("implement; refactor"),
                         ToolUseBlock("test", DictInput("{\"a\": 1}")) >>)),
      RawLine("tool_result", "t1", StrContent("review deploy debug")),
      MessageLine("assistant", Absent, ListContent(<< TextBlock("documentation") >>)) }

\* Records of every role the renderer tells apart, with and without content.
RenderLines ==
    { MessageLine("user", "user", StrContent("u")),
      MessageLine("assistant", "assistant", ListContent(<< TextBlock("a") >>)),
      MessageLine("user", "user", ListContent(<<>>)),
      MessageLine("user", "system", StrContent("s")),
      RawLine("tool_use", Absent, NoContent),
      MessageLine("assistant", Absent, ListContent(<< TextBlock("x") >>)) }

\* The sequences over S of at most n elements.
RECURSIVE SeqsUpTo(_, _)
SeqsUpTo(S, n) ==
    IF n = 0 THEN {<<>>}
    ELSE LET shorter == SeqsUpTo(S, n - 1)
         IN  shorter \cup {Append(q, x) : q \in shorter, x \in S}

\* The transcripts over a set of lines.
Transcripts(lines) == { [status |-> "ok", lines |-> l] : l \in SeqsUpTo(lines, MaxLines) }

MissingTranscript == [status |-> "missing", lines |-> <<>>]
UnreadableTranscript == [status |-> "unreadable", lines |-> <<>>]

\* ------------------------------------------------------------ state
VARIABLES
    \* One transcript through the reader and the functions that follow it:
    transcript,     \* the file given to parse_transcript
    pc,             \* "start" before parse_transcript has run, "parsed" after
    parsed,         \* the list parse_transcript returned
    messages,       \* that list as the calls made since have left it
    call,           \* the latest call on the list: its arguments and its result
    \* Invocations of main() on one file system:
    files,          \* the files under the output roots: path -> text
    today,          \* the date the latest invocation read from the clock
    n_invocations,  \* invocations so far
    inv,            \* the latest invocation: its mode, arguments and result,
                    \* whether a hook invocation for the same root and session
                    \* had returned 0 before it (repeat), the paths whose file
                    \* it created or changed, and the text of the index it
                    \* started from
    completed,      \* <<output root, session id>> of the hook invocations
                    \* that have returned 0
    exports,        \* those among them that ran the export, one per run
    \* Calls of update_index on one index file:
    inserted        \* the entries inserted so far, oldest first

pipeline_vars == <<transcript, pc, parsed, messages, call>>
main_vars == <<files, today, n_invocations, inv, completed, exports, inserted>>
vars == <<transcript, pc, parsed, messages, call,
          files, today, n_invocations, inv, completed, exports, inserted>>

\* A call: op names the function, before is the list it was given, i the
\* message (extract_content) and session_id the identifier (generate_title);
\* title, tags, body and content hold the result.  run counts the calls of
\* extract_tags made one after the other starting on the list as parsed, and
\* first_tags holds what the first of them returned.
NoCall ==
    [op |-> "none", i |-> 0, session_id |-> "", before |-> <<>>, title |-> "",
     tags |-> <<>>, body |-> <<>>, content |-> RetNone, run |-> 0,
     first_tags |-> <<>>]

Dates == << "2026-11-02", "2026-12-01" >>

NoInvocation ==
    [mode |-> "none", session_id |-> "", output_dir |-> "", code |-> 0,
     transcript |-> "", guard |-> FALSE, exported |-> FALSE, n_messages |-> 0,
     date |-> "", repeat |-> FALSE, changed |-> {}, index_before |-> ""]

\* The state of the half of the model a specification does not exercise.
PipelineIdle ==
    /\ transcript = MissingTranscript
    /\ pc = "idle"
    /\ parsed = <<>>
    /\ messages = <<>>
    /\ call = NoCall

MainIdle ==
    /\ files = <<>>
    /\ today = 1
    /\ n_invocations = 0
    /\ inv = NoInvocation
    /\ completed = {}
    /\ exports = <<>>
    /\ inserted = <<>>

\* ------------------------------------------------------------ the pipeline
PipelineInit(inputs) ==
    /\ transcript \in inputs
    /\ pc = "start"
    /\ parsed = <<>>
    /\ messages = <<>>
    /\ call = NoCall
    /\ MainIdle

\* messages = parse_transcript(path)
Parse ==
    /\ pc = "start"
    /\ pc' = "parsed"
    /\ parsed' = parse_transcript(transcript)
    /\ messages' = parsed'
    /\ UNCHANGED <<transcript, call>>
    /\ UNCHANGED main_vars

\* generate_title(messages, session_id)
Title ==
    /\ pc = "parsed"
    /\ \E sid \in {"ab", "0123456789"} :
        \E r \in {generate_title(messages, sid)} :
            /\ messages' = r.messages
            /\ call' = [NoCall EXCEPT !.op = "title", !.before = messages,
                                      !.session_id = sid, !.title = r.title]
    /\ UNCHANGED <<transcript, pc, parsed>>
    /\ UNCHANGED main_vars

\* extract_tags(messages)
Tags ==
    /\ pc = "parsed"
    /\ \E r \in {extract_tags(messages)} :
       LET run == IF call = NoCall THEN 1
                  ELSE IF call.op = "tags" /\ call.run > 0 THEN 2
                  ELSE 0
       IN  /\ messages' = r.messages
           /\ call' = [NoCall EXCEPT
                        !.op = "tags", !.before = messages, !.tags = r.tags,
                        !.run = run,
                        !.first_tags = IF run = 1 THEN r.tags
                                       ELSE IF run = 2 THEN call.first_tags
                                       ELSE <<>>]
    /\ UNCHANGED <<transcript, pc, parsed>>
    /\ UNCHANGED main_vars

\* to_markdown(messages, metadata); the body does not depend on the metadata.
Render ==
    /\ pc = "parsed"
    /\ LET metadata == [session_id |-> "ab", date |-> Dates[1],
                        message_count |-> Len(messages), cwd |-> Absent,
                        title |-> "Untitled Conversation", tags |-> <<>>]
       IN  \E r \in {to_markdown(messages, metadata)} :
           /\ messages' = r.messages
           /\ call' = [NoCall EXCEPT !.op = "render", !.before = messages,
                                     !.body = r.body]
    /\ UNCHANGED <<transcript, pc, parsed>>
    /\ UNCHANGED main_vars

\* extract_content(messages[i])
Extract(i) ==
    /\ pc = "parsed"
    /\ \E r \in {extract_content(messages[i])} :
           /\ messages' = [messages EXCEPT ![i] = r.message]
           /\ call' = [NoCall EXCEPT !.op = "extract", !.i = i, !.before = messages,
                                     !.content = r.content]
    /\ UNCHANGED <<transcript, pc, parsed>>
    /\ UNCHANGED main_vars

ExtractAny == \E i \in 1..Len(messages) : Extract(i)

PipelineNext == Parse \/ Title \/ Tags \/ Render \/ ExtractAny

\* The reader on transcripts of lines of every shape it tells apart.
ReaderInit ==
    PipelineInit({MissingTranscript, UnreadableTranscript} \cup Transcripts(ReaderLines))
ReaderNext == Parse \/ ExtractAny
ReaderSpec == ReaderInit /\ [][ReaderNext]_vars

\* Title inference on user content around its limits, on the list as parsed
\* and as earlier calls of generate_title have left it.
TitleInit == PipelineInit(Transcripts(TitleLines))
TitleNext == Parse \/ Title
TitleSpec == TitleInit /\ [][TitleNext]_vars

\* Tag inference on content holding keywords.
TagInit == PipelineInit(Transcripts(TagLines))
TagNext == Parse \/ Tags \/ ExtractAny
TagSpec == TagInit /\ [][TagNext]_vars

\* Rendering on records of every role, on the list as parsed and as earlier
\* calls of extract_content have left it.
RenderInit == PipelineInit(Transcripts(RenderLines))
RenderNext == Parse \/ Render \/ ExtractAny
RenderSpec == RenderInit /\ [][RenderNext]_vars

\* Every function of the pipeline, in any order, on records of every role.
PipelineSpec == RenderInit /\ [][PipelineNext]_vars

\* ------------------------------------------------------------ index updates
IndexRoot == "/p/.claude/history"

\* The metadata update_index reads.
IndexInputs ==
    { [session_id |-> m.session_id, date |-> m.date, title |-> m.title,
       tags |-> IF m.session_id = "a" THEN <<>> ELSE <<"bug-fix", "api">>] :
        m \in [session_id : {"a", "ab"}, date : {Dates[1], Dates[2]},
               title : {"Fix the login flow bug", "On ## Conversations"}] }

IndexInit == MainIdle /\ PipelineIdle

\* update_index(output_dir, session_id, metadata)
UpdateIndex ==
    /\ Len(inserted) < MaxUpdates
    /\ \E m \in IndexInputs :
        /\ files' = update_index(files, IndexRoot, m.session_id, m)
        /\ inserted' = Append(inserted, index_entry(m.session_id, m))
    /\ UNCHANGED <<today, n_invocations, inv, completed, exports>>
    /\ UNCHANGED pipeline_vars

IndexSpec == IndexInit /\ [][UpdateIndex]_vars

\* ------------------------------------------------------------ invocations
\* The transcripts on disk, by path.
TranscriptFiles ==
    [path \in {"/t/none", "/t/bad", "/t/one"} |->
        CASE path = "/t/none" -> MissingTranscript
          [] path = "/t/bad" ->
                [status |-> "ok",
                 lines |-> << MessageLine("user", "user", StrContent("hello")),
                              NonMapLine >>]
          [] OTHER ->
                [status |-> "ok",
                 lines |-> << UndecodableLine,
                              MessageLine("user", "user",
                                  StrContent("Fix the login flow bug")) >>]]

\* What hook mode may read from stdin.
HookInputs ==
    { [decodable |-> FALSE, session_id |-> "", transcript_path |-> "", cwd |-> ""],
      [decodable |-> TRUE, session_id |-> "", transcript_path |-> "/t/one",
       cwd |-> "/p"],
      [decodable |-> TRUE, session_id |-> "a", transcript_path |-> "/t/one",
       cwd |-> ""],
      [decodable |-> TRUE, session_id |-> "a", transcript_path |-> "/t/one",
       cwd |-> "/q"] }
    \cup [decodable : {TRUE}, session_id : {"a"},
          transcript_path : {""} \cup DOMAIN TranscriptFiles, cwd : {"/p"}]
    \cup [decodable : {TRUE}, session_id : {"ab"},
          transcript_path : {"", "/t/one"}, cwd : {"/p"}]

\* What CLI mode may be given.
CliInputs ==
    [session_id : {"a"}, transcript : DOMAIN TranscriptFiles,
     output : {hook_output_dir("/p")}, cwd : {Absent}]
    \cup [session_id : {"ab"}, transcript : {"/t/one"},
          output : {hook_output_dir("/p")}, cwd : {Absent}]

MainInit == MainIdle /\ PipelineIdle

\* The paths whose file differs between two file systems.
Changed(before, after) ==
    {p \in DOMAIN before \cup DOMAIN after :
        ~(Exists(before, p) /\ Exists(after, p) /\ before[p] = after[p])}

\* The text of the index under a root, "" when there is none.
IndexText(fs, output_dir) ==
    IF Exists(fs, output_dir \o "/index.md") THEN fs[output_dir \o "/index.md"] ELSE ""

\* One run of main() in hook mode, on the day the clock shows.
Hook ==
    /\ n_invocations < MaxInvocations
    /\ \E hook_data \in HookInputs, day \in today..Len(Dates) :
        \E r \in {main_hook(files, hook_data, TranscriptFiles, Dates[day])} :
        LET located == hook_data.decodable /\ hook_data.session_id # ""
                       /\ hook_data.cwd # ""
            output_dir == IF located THEN hook_output_dir(hook_data.cwd) ELSE ""
            key == << output_dir, hook_data.session_id >>
        IN  /\ files' = r.fs
            /\ today' = day
            /\ inv' = [mode |-> "hook", session_id |-> hook_data.session_id,
                       output_dir |-> output_dir, code |-> r.code,
                       transcript |-> hook_data.transcript_path,
                       guard |-> r.guard, exported |-> r.exported,
                       n_messages |-> r.n_messages, date |-> Dates[day],
                       repeat |-> located /\ key \in completed,
                       changed |-> Changed(files, r.fs),
                       index_before |-> IndexText(files, output_dir)]
            /\ completed' = IF located /\ r.code = 0 THEN completed \cup {key}
                            ELSE completed
            /\ exports' = IF r.exported THEN Append(exports, key) ELSE exports
    /\ n_invocations' = n_invocations + 1
    /\ UNCHANGED inserted
    /\ UNCHANGED pipeline_vars

\* One run of main() in CLI mode.
Cli ==
    /\ n_invocations < MaxInvocations
    /\ \E args \in CliInputs, day \in today..Len(Dates) :
        \E r \in {main_cli(files, args, TranscriptFiles, Dates[day])} :
            /\ files' = r.fs
            /\ today' = day
            /\ inv' = [mode |-> "cli", session_id |-> args.session_id,
                       output_dir |-> args.output, code |-> r.code,
                       transcript |-> args.transcript,
                       guard |-> r.guard, exported |-> r.exported,
                       n_messages |-> r.n_messages, date |-> Dates[day],
                       repeat |-> FALSE,
                       changed |-> Changed(files, r.fs),
                       index_before |-> IndexText(files, args.output)]
    /\ n_invocations' = n_invocations + 1
    /\ UNCHANGED <<completed, exports, inserted>>
    /\ UNCHANGED pipeline_vars

Next == Hook \/ Cli

Spec == MainInit /\ [][Next]_vars


\* ---------------------------------------------------------------------------
\* Properties
\* ---------------------------------------------------------------------------

\* A transcript line the reader is meant to keep: a JSON mapping whose type is
\* user or assistant and whose message is a mapping, or whose type is tool_use
\* or tool_result.
Usable(line) ==
    /\ line.shape = "map"
    /\ \/ line.data.type \in {"user", "assistant"} /\ line.data.message.m = "map"
       \/ line.data.type \in {"tool_use", "tool_result"}

\* The record a usable line stands for.
RecordOf(line) ==
    IF line.data.type \in {"user", "assistant"}
    THEN [line.data.message.v EXCEPT !._msg_type = line.data.type]
    ELSE RawRecord(line.data)

\* The records of the usable lines of a transcript, in input order.
UsableRecords(lines) ==
    LET usable == SelectSeq(lines, Usable)
    IN  [i \in 1..Len(usable) |-> RecordOf(usable[i])]

\* C4: for every log source the reader returns exactly the records of the
\* usable lines, in input order; no other line contributes a record or removes
\* one, and a source that cannot be read yields no records.
C4_ReaderKeepsUsableLines ==
    pc = "parsed" =>
        parsed = IF transcript.status = "ok"
                 THEN UsableRecords(transcript.lines)
                 ELSE <<>>

\* C9: content extraction leaves the record it is given as it was, so a record
\* list is the parsed list whatever has been run on it, and each extraction of a
\* record yields the fragment of the record as parsed.
C9_ExtractionLeavesRecords ==
    pc = "parsed" =>
        /\ messages = parsed
        /\ call.op = "extract" =>
                call.content = extract_content_value(parsed[call.i])

\* The place of a tag in the keyword table: the first row that carries it.
TagRow(tag) == Least({k \in 1..Len(keywords) : keywords[k][2] = tag})

\* C7: tag derivation returns at most five tags, each once, in keyword-table
\* order, and a second derivation on the same record list returns the sequence
\* the first one returned.
C7_TagsStable ==
    call.op = "tags" =>
        /\ Len(call.tags) <= 5
        /\ \A i, j \in 1..Len(call.tags) :
                i < j => TagRow(call.tags[i]) < TagRow(call.tags[j])
        /\ call.run = 2 => call.tags = call.first_tags

\* The session identifiers recorded in the marker file of an output root: its
\* lines.
Recorded(fs, output_dir) ==
    LET state_file == output_dir \o "/.exported_state"
        lines == ReadLines(fs[state_file])
        Ended(l) == Len(l) > 0 /\ Char(l, Len(l)) = "\n"
    IN  IF Exists(fs, state_file)
        THEN {IF Ended(lines[i]) THEN SubSeq(lines[i], 1, Len(lines[i]) - 1)
              ELSE lines[i] : i \in 1..Len(lines)}
        ELSE {}

\* C3: a triggered invocation is skipped by the guard only when its own session
\* identifier is one of the identifiers recorded for its output root.
C3_GuardSkipsOnlyRecordedSessions ==
    (inv.mode = "hook" /\ inv.guard) =>
        inv.session_id \in Recorded(files, inv.output_dir)


\* The lines of the index file of an output root.
IndexLines(fs, output_dir) ==
    IF Exists(fs, output_dir \o "/index.md")
    THEN ReadLines(fs[output_dir \o "/index.md"])
    ELSE <<>>

Reverse(seq) == [i \in 1..Len(seq) |-> seq[Len(seq) + 1 - i]]

\* C2: starting from an absent index file, after n index updates the index is
\* the fixed header followed by exactly the n inserted entries in reverse
\* insertion order; before the first update there is no index file.
C2_IndexNewestFirst ==
    IndexLines(files, IndexRoot) =
        IF inserted = <<>> THEN <<>> ELSE index_header \o Reverse(inserted)

\* Three updates have run, the first with the later date and the last with the
\* earlier one.
C2_Witness ==
    /\ Len(inserted) = 3
    /\ StartsWith(inserted[1], "- [" \o Dates[2] \o "]")
    /\ StartsWith(inserted[3], "- [" \o Dates[1] \o "]")
    /\ inserted[1] # inserted[2]
    /\ Len(IndexLines(files, IndexRoot)) = 9

\* The trimmed content of a record, as title inference reads it.
TitleContent(m) == Strip(extract_content_value(m).s)

\* A record whose first line may be the title.
Qualifies(m) ==
    /\ m.role = "user"
    /\ Truthy(extract_content_value(m))
    /\ ~\E p \in {"[Tool Result:", "[Tool Use:", "[Request interrupted", "[Image:"} :
            StartsWith(TitleContent(m), p)
    /\ Len(TitleContent(m)) >= 20

\* The title the inference is to return for a record list and a session.
ExpectedTitle(records, session_id) ==
    LET Q == {i \in 1..Len(records) : Qualifies(records[i])}
        line == Strip(FirstLine(TitleContent(records[Least(Q)])))
    IN  IF Q = {} THEN "Conversation " \o Prefix(session_id, 8)
        ELSE IF Len(line) <= 50 THEN line
        ELSE SubSeq(line, 1, 47) \o "..."

\* C6: title inference returns the first line of the first qualifying record
\* (user role, non-empty content that starts with none of the four markers and
\* whose trimmed length is at least 20), as it is when it has at most 50
\* characters and as its first 47 characters and an ellipsis otherwise; with no
\* qualifying record it returns the fixed prefix and the first 8 characters of
\* the session identifier.
C6_TitleFromFirstQualifyingLine ==
    call.op = "title" => call.title = ExpectedTitle(call.before, call.session_id)

\* Title inference passed over a user record and cut the first line of the next.
C6_Witness ==
    /\ call.op = "title"
    /\ Len(call.before) >= 2
    /\ call.before[1].role = "user"
    /\ ~Qualifies(call.before[1])
    /\ Qualifies(call.before[2])
    /\ Len(call.title) = 50
    /\ SubSeq(call.title, 48, 50) = "..."

\* A record the body shows: its role has a heading and its content is not empty.
Shown(m) ==
    Heading(RoleValue(m)) # Absent /\ Truthy(extract_content_value(m))

\* The body to be rendered for a record list: one section for each maximal run
\* of shown records under one heading, a rule between adjacent sections.
ExpectedBody(records) ==
    LET shown == SelectSeq(records, Shown)
        n == Len(shown)
        H(k) == Heading(RoleValue(shown[k]))
        F(k) == extract_content_value(shown[k]).s
        starts == {k \in 1..n : k = 1 \/ H(k) # H(k - 1)}
        RunEnd(k) == Least({e \in k..n : e = n \/ (e + 1) \in starts})
        Section(k) ==
            Join("\n", << H(k), "" >> \o [j \in 1..(RunEnd(k) - k + 1) |-> F(k + j - 1)])
        Nth(j) == CHOOSE k \in starts : Cardinality({x \in starts : x < k}) = j - 1
        K == Cardinality(starts)
    IN  [p \in 1..(IF K = 0 THEN 0 ELSE 4 * K - 3) |->
            CASE p % 4 = 1 -> Section(Nth((p + 3) \div 4))
              [] p % 4 = 3 -> "---"
              [] OTHER -> ""]

\* C8: the rendered body has exactly one section per maximal run of consecutive
\* shown records of one role, in log order, each a heading, a blank line and the
\* fragments of the run; a rule separates adjacent sections, none follows the
\* last, and records that are not shown never split a run.
C8_OneSectionPerRun ==
    call.op = "render" => call.body = ExpectedBody(call.before)

\* A rendered list of three shown records whose first and last have one role
\* and whose middle one has another: three sections, two rules.
C8_Witness ==
    /\ call.op = "render"
    /\ Len(call.before) = 3
    /\ \A i \in 1..3 : Shown(call.before[i])
    /\ Heading(RoleValue(call.before[1])) = Heading(RoleValue(call.before[3]))
    /\ Heading(RoleValue(call.before[1])) # Heading(RoleValue(call.before[2]))
    /\ Len(call.body) = 9
    /\ call.body[8] = ""


\* The lines of an index text: the fixed header when there is no index yet.
IndexLinesOf(text) == IF text = "" THEN index_header ELSE ReadLines(text)

\* The document path of the latest invocation.
Document == inv.output_dir \o "/" \o rel_path(inv.date, inv.session_id)

\* C5: a direct invocation returns 1 exactly when the reader yields no record,
\* and then it writes no file; when the reader yields a record it returns 0,
\* writes the one document of its session and date, and the index holds one
\* line more than before, a reference to that document under the header.
C5_DirectModeCodes ==
    inv.mode = "cli" =>
        LET n == Len(parse_transcript(TranscriptFiles[inv.transcript]))
            index == IndexLines(files, inv.output_dir)
        IN  /\ inv.code = (IF n = 0 THEN 1 ELSE 0)
            /\ n = 0 => inv.changed = {}
            /\ n > 0 =>
                /\ Exists(files, Document)
                /\ inv.changed \subseteq {Document, inv.output_dir \o "/index.md"}
                /\ Len(index) = Len(IndexLinesOf(inv.index_before)) + 1
                /\ Contains(index[Len(index_header) + 1],
                            "](" \o rel_path(inv.date, inv.session_id) \o ")")

\* A direct invocation exported a session into a root whose index held one
\* entry.
C5_Witness ==
    /\ inv.mode = "cli"
    /\ inv.code = 0
    /\ inv.index_before # ""
    /\ Document \in inv.changed
    /\ Len(IndexLines(files, inv.output_dir)) = Len(index_header) + 2

\* C1: the triggered pipeline runs at most once for a root and a session, and a
\* triggered invocation that follows one which returned 0 for the same root
\* and session returns 0 and leaves every document and the index as they were.
C1_TriggeredExportOnce ==
    /\ \A i, j \in 1..Len(exports) : i < j => exports[i] # exports[j]
    /\ (inv.mode = "hook" /\ inv.repeat) =>
            /\ inv.code = 0
            /\ ~inv.exported
            /\ inv.changed = {}

\* A triggered invocation followed the one that exported its session.
C1_Witness ==
    /\ inv.mode = "hook"
    /\ inv.repeat
    /\ << inv.output_dir, inv.session_id >> \in {exports[i] : i \in 1..Len(exports)}
    /\ inv.transcript = "/t/one"
    /\ inv.code = 0

\* The output roots the invocations write to.
Roots == {hook_output_dir("/p"), hook_output_dir("/q")}

\* The documents stored under a root, by their path relative to it.
Documents(fs, root) ==
    {SubSeq(path, Len(root) + 2, Len(path)) :
        path \in {q \in DOMAIN fs :
                    /\ StartsWith(q, root \o "/")
                    /\ q # root \o "/index.md"
                    /\ Len(q) > 3 /\ SubSeq(q, Len(q) - 2, Len(q)) = ".md"}}

\* The index entries of a root: the lines below the header.
Entries(fs, root) ==
    LET lines == IndexLines(fs, root)
    IN  SubSeq(lines, Len(index_header) + 1, Len(lines))

\* The entry refers to the document at the relative path.
Refers(entry, path) == Contains(entry, "](" \o path \o ")")

\* The number of the entries that refer to a document.
References(entries, path) ==
    Cardinality({i \in 1..Len(entries) : Refers(entries[i], path)})

\* Every index entry of every root names a stored document.
EntriesNameDocuments ==
    \A root \in Roots :
        \A entries \in {Entries(files, root)}, docs \in {Documents(files, root)} :
            \A i \in 1..Len(entries) : \E path \in docs : Refers(entries[i], path)

====
